---- MODULE Spec2Model ----
(***************************************************************************)
(* pod-pruner: the periodic prune cycle of pruner/pruner.go over the       *)
(* listers and deleters of pruner/internal/resources.                      *)
(*                                                                         *)
(* A Go string is a sequence of atoms: an atom is a separator character    *)
(* (",", "/", ":", " ") or a maximal run of other characters ("ns1",       *)
(* "Complete").  strings.Split, strings.TrimSpace and fmt.Sprintf are      *)
(* computed on these sequences.                                            *)
(***************************************************************************)
EXTENDS Integers, Sequences, FiniteSets, TLC

VARIABLES
    env,            \* the process environment: one [set, val] per variable
    dryRun,         \* main: dryRun
    NAMESPACES,     \* main: NAMESPACES
    RESOURCES,      \* main: RESOURCES
    pc,             \* position of main
    nsIdx,          \* index of the namespace loop
    tickerC,        \* ticks buffered in ticker.C (capacity 1)
    ticksFired,     \* ticks the runtime timer has fired
    cluster,        \* the cluster: [pods, jobs], each in API order
    continueToken,  \* GetContainers: continueToken (0 is "")
    containers,     \* GetContainers: containers / handlePruning: items
    jobsList,       \* GetJobs: jobsList / handlePruning: items
    delIdx,         \* index of the deleters' range loop
    pages,          \* answers of the API to the list requests of the listing in progress
    listed,         \* the (kind, namespace) pairs a list request was issued for in the current tick
    calls,          \* delete calls issued in the current tick
    log,            \* log records of the current tick
    metrics,        \* the counter vectors, by namespace
    mIn,            \* argument of a matcher application
    mOut,           \* result of a matcher application
    err,            \* main: err of GetKubernetesClient (TRUE is non-nil)
    ctx,            \* DeleteContainers: ctx, "live" or "done" (its deadline has passed)
    k8sManager,     \* the KubernetesClientManager: state of once, clientset
    caller          \* the calls of k8sManager.GetKubernetesClient: position, err, values returned

vars == <<env, dryRun, NAMESPACES, RESOURCES, pc, nsIdx, tickerC, ticksFired,
          cluster, continueToken, containers, jobsList, delIdx, pages, listed,
          calls, log, metrics, mIn, mOut, err, ctx, k8sManager, caller>>

(***************************************************************************)
(* Bounds                                                                  *)
(***************************************************************************)
MaxTicks == 2
MaxCallers == 3
MaxConds == 2

(***************************************************************************)
(* Strings                                                                 *)
(***************************************************************************)
RECURSIVE SplitFrom(_, _, _, _)
SplitFrom(s, sep, i, cur) ==
    IF i > Len(s) THEN <<cur>>
    ELSE IF s[i] = sep THEN <<cur>> \o SplitFrom(s, sep, i + 1, <<>>)
    ELSE SplitFrom(s, sep, i + 1, Append(cur, s[i]))

\* strings.Split(s, sep) for a one-character separator
Split(s, sep) == SplitFrom(s, sep, 1, <<>>)

RECURSIVE TrimLeft(_)
TrimLeft(s) == IF Len(s) > 0 /\ s[1] = " " THEN TrimLeft(Tail(s)) ELSE s

RECURSIVE TrimRight(_)
TrimRight(s) ==
    IF Len(s) > 0 /\ s[Len(s)] = " " THEN TrimRight(SubSeq(s, 1, Len(s) - 1)) ELSE s

\* strings.TrimSpace
TrimSpace(s) == TrimRight(TrimLeft(s))

\* fmt.Sprintf("%s/%s: %s", a, b, c)
SprintfDescriptor(a, b, c) == a \o <<"/">> \o b \o <<":", " ">> \o c

(***************************************************************************)
(* utils                                                                   *)
(***************************************************************************)
Unset == [set |-> FALSE, val |-> <<>>]
Value(s) == [set |-> TRUE, val |-> s]

\* os.Getenv
Getenv(e) == IF e.set THEN e.val ELSE <<>>

\* a lookup that takes an empty value for an unset variable
GetEnvEmptyIsUnset(e, defaultValue) ==
    IF ~e.set \/ e.val = <<>> THEN defaultValue ELSE e.val

\* utils.GetEnv
GetEnv(e, defaultValue) == IF ~e.set THEN defaultValue ELSE e.val

\* a comparison that ignores the spaces around the elements of the list
ContainsTrimmed(list, str) == \E i \in 1..Len(list) : TrimSpace(list[i]) = str

\* the lower-case form of a string
LowerWord(w) ==
    CASE w = "JOBS" -> "jobs" [] w = "Complete" -> "complete" [] OTHER -> w
Lower(s) == [i \in 1..Len(s) |-> LowerWord(s[i])]

\* a comparison that folds the case of both sides
ContainsEqualFold(list, str) == \E i \in 1..Len(list) : Lower(list[i]) = Lower(str)

\* utils.Contains
Contains(list, str) == \E i \in 1..Len(list) : list[i] = str

(***************************************************************************)
(* The cluster behind the API                                              *)
(***************************************************************************)
Absent == [set |-> FALSE, reason |-> <<>>]
Reason(r) == [set |-> TRUE, reason |-> r]

\* v1.ContainerState: Waiting and Terminated are pointers, nil when absent
Running == [waiting |-> Absent, terminated |-> Absent]
Waiting(r) == [waiting |-> Reason(r), terminated |-> Absent]
Terminated(r) == [waiting |-> Absent, terminated |-> Reason(r)]

Pod(ns, name, cs) == [ns |-> ns, name |-> name, cs |-> cs]
Condition(t, r, s) == [type |-> t, reason |-> r, status |-> s]
Job(ns, name, conds) == [ns |-> ns, name |-> name, conds |-> conds]

ClusterPods ==
    << Pod(<<"ns1">>, <<"p1">>, <<Terminated(<<"Error">>)>>),
       Pod(<<"ns1">>, <<"p2">>, <<Waiting(<<"CrashLoopBackOff">>), Terminated(<<>>)>>),
       Pod(<<"ns1">>, <<"p3">>, <<Running, Terminated(<<"Error">>)>>),
       Pod(<<"ns2">>, <<"p4">>, <<Terminated(<<"Error">>), Terminated(<<"Error">>)>>) >>

ClusterJobs ==
    << Job(<<"ns1">>, <<"j1">>, <<Condition(<<"Complete">>, <<>>, "True")>>),
       Job(<<"ns1">>, <<"j2">>, <<Condition(<<"Failed">>, <<"Complete">>, "True"),
                                  Condition(<<" ", "Complete">>, <<>>, "False")>>),
       Job(<<"ns2">>, <<"j3">>, <<Condition(<<>>, <<"Failed">>, "True")>>) >>

\* Pods(namespace) / Jobs(namespace): "" is metav1.NamespaceAll for a list
InNamespace(objs, ns) ==
    LET In(o) == ns = <<>> \/ o.ns = ns IN SelectSeq(objs, In)

\* the answers the API can give to a list request with a continuation token:
\* an error, or the next k objects and the token of the rest ("" at the end)
ListResponses(all, token) ==
    {[err |-> TRUE, token |-> token, items |-> <<>>, next |-> 0]}
    \cup (IF token >= Len(all)
          THEN {[err |-> FALSE, token |-> token, items |-> <<>>, next |-> 0]}
          ELSE {[err |-> FALSE, token |-> token,
                 items |-> SubSeq(all, token + 1, token + k),
                 next |-> IF token + k >= Len(all) THEN 0 ELSE token + k]
                : k \in 1..(Len(all) - token)})

Exists(objs, ns, name) == \E i \in 1..Len(objs) : objs[i].ns = ns /\ objs[i].name = name

\* the results of a request issued with a context: every request fails once
\* the deadline of the context has passed
WithContext(c, results) == IF c = "done" THEN {FALSE} ELSE results

\* the results a delete request can have: TRUE is success
DeleteResults(objs, ns, name) ==
    IF Exists(objs, ns, name) THEN {TRUE, FALSE} ELSE {FALSE}

Remove(objs, ns, name) ==
    LET Keep(o) == ~(o.ns = ns /\ o.name = name) IN SelectSeq(objs, Keep)

(***************************************************************************)
(* resources: containers.go                                                *)
(***************************************************************************)
\* the guard without its test of the single empty token
StatusesEmptyLenOnly(statuses) == Len(statuses) = 0

\* GetContainers, the guard on CONTAINER_STATUSES
StatusesEmpty(statuses) ==
    Len(statuses) = 0 \/ (Len(statuses) = 1 /\ statuses[1] = <<>>)

\* the matcher without its test of the waiting state
isContainerInStateTerminatedOnly(containerStatus, statuses) ==
    /\ containerStatus.terminated.set
    /\ \E i \in 1..Len(statuses) : statuses[i] = containerStatus.terminated.reason

isContainerInState(containerStatus, statuses) ==
    LET statusSet == {statuses[i] : i \in 1..Len(statuses)} IN
    \/ /\ containerStatus.waiting.set
       /\ containerStatus.waiting.reason \in statusSet
    \/ /\ containerStatus.terminated.set
       /\ containerStatus.terminated.reason \in statusSet

\* the (pod, containerStatus) pairs of a page, in the order of the two range loops
RECURSIVE ContainerStatuses(_)
ContainerStatuses(items) ==
    IF items = <<>> THEN <<>>
    ELSE [i \in 1..Len(items[1].cs) |-> [pod |-> items[1], cs |-> items[1].cs[i]]]
         \o ContainerStatuses(Tail(items))

MatchingContainers(items, statuses) ==
    LET Match(x) == isContainerInState(x.cs, statuses)
    IN SelectSeq(ContainerStatuses(items), Match)

\* ContainerInfo{...}: Status reads State.Terminated.Reason, a nil dereference
\* when the container matched on its waiting state
DereferencesNil(items, statuses) ==
    \E i \in 1..Len(MatchingContainers(items, statuses)) :
        ~MatchingContainers(items, statuses)[i].cs.terminated.set

ContainerInfos(items, statuses) ==
    LET m == MatchingContainers(items, statuses) IN
    [i \in 1..Len(m) |-> [Namespace |-> m[i].pod.ns,
                          PodName |-> m[i].pod.name,
                          Status |-> m[i].cs.terminated.reason]]

(***************************************************************************)
(* resources: jobs.go                                                      *)
(***************************************************************************)
\* the test on the reason of the condition instead of its type
jobStatusMatchesReason(statuses, jobStatus) == Contains(statuses, jobStatus.reason)

\* a test that also asks for the status True of the condition
jobStatusMatchesTrueOnly(statuses, jobStatus) ==
    Contains(statuses, TrimSpace(jobStatus.type)) /\ jobStatus.status = "True"

\* GetJobs, the test of one condition
jobStatusMatches(statuses, jobStatus) == Contains(statuses, TrimSpace(jobStatus.type))

RECURSIVE JobConditions(_)
JobConditions(items) ==
    IF items = <<>> THEN <<>>
    ELSE [i \in 1..Len(items[1].conds) |-> [job |-> items[1], cond |-> items[1].conds[i]]]
         \o JobConditions(Tail(items))

\* GetJobs, the two range loops over the answer of the list request
JobDescriptors(items, statuses) ==
    LET Match(x) == jobStatusMatches(statuses, x.cond)
        m == SelectSeq(JobConditions(items), Match)
    IN [i \in 1..Len(m) |-> SprintfDescriptor(m[i].job.ns, m[i].job.name, m[i].cond.type)]

\* delete options without a propagation policy
propagationPolicyUnset == ""

\* DeleteJobs: metav1.DeletePropagationBackground
propagationPolicy == "Background"

\* a check that lets a descriptor with more than one "/" through
validJobPartsAtLeastTwo(jobParts) == Len(jobParts) >= 2

\* DeleteJobs: len(jobParts) != 2 is the invalid job format
validJobParts(jobParts) == Len(jobParts) = 2

\* DeleteJobs: the name the delete request is issued for
jobName(jobParts) == TrimSpace(Split(jobParts[2], ":")[1])

(***************************************************************************)
(* main: configuration                                                     *)
(***************************************************************************)
DryRunValues ==
    {Unset, Value(<<"true">>), Value(<<"false">>), Value(<<"TRUE">>), Value(<<>>)}
NamespacesValues ==
    {Unset, Value(<<"ns1">>), Value(<<"ns1", ",", "ns2">>)}
ResourcesValues ==
    {Unset, Value(<<"JOBS">>), Value(<<"PODS", ",", "JOBS">>),
     Value(<<"PODS", ",", " ", "JOBS">>)}
ContainerStatusesValues ==
    {Unset, Value(<<>>), Value(<<"Error">>),
     Value(<<"Error", ",", "CrashLoopBackOff">>)}
JobStatusesValues ==
    {Unset, Value(<<>>), Value(<<"Failed">>), Value(<<"Complete", ",", "Failed">>)}

Environments ==
    [DRY_RUN : DryRunValues, NAMESPACES : NamespacesValues,
     RESOURCES : ResourcesValues, CONTAINER_STATUSES : ContainerStatusesValues,
     JOB_STATUSES : JobStatusesValues]

NamespaceLabels == {<<>>, <<"ns1">>, <<"ns2">>}

\* GetContainers: statuses
containerStatuses == Split(Getenv(env.CONTAINER_STATUSES), ",")
\* GetJobs: statuses
jobStatuses == Split(GetEnv(env.JOB_STATUSES, <<"Complete">>), ",")

namespace == NAMESPACES[nsIdx]

Record(ev, kind, ns, name) == [ev |-> ev, kind |-> kind, ns |-> ns, name |-> name]
ListCall(kind, ns) == [kind |-> kind, ns |-> ns]
DeleteCall(kind, ns, name, policy, ok) ==
    [op |-> "delete", kind |-> kind, ns |-> ns, name |-> name,
     policy |-> policy, ok |-> ok]

Add(counter, ns, n) == [metrics EXCEPT ![counter][ns] = @ + n]

\* the context of a list request has a deadline: context.WithTimeout in
\* GetContainers, context.TODO() in GetJobs
Deadline(kind) == kind = "pods"

\* the end of the body of the namespace loop, also reached by continue
EndOfBody(i) ==
    IF i < Len(NAMESPACES) THEN [pc |-> "pods", nsIdx |-> i + 1]
    ELSE [pc |-> "idle", nsIdx |-> 0]

\* handlePruning without its dry-run branch
handlePruningAlwaysLive(items, dry) == IF Len(items) > 0 THEN "delete" ELSE "nothing"

\* handlePruning: which branch is taken
handlePruning(items, dry) ==
    IF Len(items) > 0
    THEN IF dry = <<"true">> THEN "dryrun" ELSE "delete"
    ELSE "nothing"

\* a fatal log that returns to its caller
FatalReturns(position) == position

\* utils.LogWithFields(logrus.FatalLevel, ...): Fatal logs and exits the process
Fatal(position) == "exited"

\* a range loop that returns at the first failed delete
nextItemAbortOnError(i, n, ok) == IF ok THEN i + 1 ELSE n + 1

\* a range loop that stays on an item until its delete succeeds
nextItemRetryOnError(i, n, ok) == IF ok THEN i + 1 ELSE i

\* the deleters' range loop: the index after an item, whatever its result
nextItem(i, n, ok) == i + 1

(***************************************************************************)
(* auth: auth.go                                                           *)
(***************************************************************************)
Callers == 1..MaxCallers

\* &KubernetesClientManager{log: log}
NewKubernetesClientManager == [once |-> "new", clientset |-> "nil"]

\* a call that has not been made yet
NotCalled == [at |-> "idle", err |-> "nil", ret |-> [clientset |-> "nil", err |-> "nil"]]

\* rest.InClusterConfig fails, kubernetes.NewForConfig fails, or both succeed
ClientOutcomes == {"config error", "clientset error", "ok"}

\* the function given to once.Do: what it leaves in m.clientset and in err
onceFunc(outcome) ==
    [clientset |-> IF outcome = "ok" THEN "clientset" ELSE "nil",
     err |-> IF outcome = "ok" THEN "nil" ELSE outcome]

\* GetKubernetesClient after once.Do: the values returned
clientReturn(mgr, e) ==
    IF e # "nil" THEN [clientset |-> "nil", err |-> e]
    ELSE [clientset |-> mgr.clientset, err |-> "nil"]

Init ==
    /\ env \in Environments
    /\ dryRun = GetEnv(env.DRY_RUN, <<"true">>)
    /\ NAMESPACES = Split(Getenv(env.NAMESPACES), ",")
    /\ RESOURCES = Split(GetEnv(env.RESOURCES, <<"PODS">>), ",")
    /\ pc = "auth"
    /\ nsIdx = 0
    /\ tickerC = 0
    /\ ticksFired = 0
    /\ cluster = [pods |-> ClusterPods, jobs |-> ClusterJobs]
    /\ continueToken = 0
    /\ containers = <<>>
    /\ jobsList = <<>>
    /\ delIdx = 0
    /\ pages = <<>>
    /\ listed = {}
    /\ calls = <<>>
    /\ log = <<>>
    /\ metrics = [c \in {"containers", "jobs"} |-> [n \in NamespaceLabels |-> 0]]
    /\ mIn = [cs |-> Running, statuses |-> <<>>]
    /\ mOut = [done |-> FALSE, val |-> FALSE]
    /\ err = FALSE
    /\ ctx = "live"
    /\ k8sManager = NewKubernetesClientManager
    /\ caller = [g \in Callers |-> NotCalled]

config == <<env, dryRun, NAMESPACES, RESOURCES>>
manager == <<k8sManager, caller>>
matcher == <<mIn, mOut>>

(***************************************************************************)
(* main                                                                    *)
(***************************************************************************)
\* k8sManager.GetKubernetesClient(); on an error the fatal log exits
GetKubernetesClient ==
    /\ pc = "auth"
    /\ \E outcome \in ClientOutcomes :
        LET done == [once |-> "done", clientset |-> onceFunc(outcome).clientset]
            ok == clientReturn(done, onceFunc(outcome).err).err = "nil"
        IN /\ k8sManager' = done
           /\ err' = ~ok
           /\ pc' = IF ok THEN "idle" ELSE Fatal("idle")
    /\ UNCHANGED <<listed, config, caller, ctx, matcher, nsIdx, tickerC, ticksFired, cluster,
                   continueToken, containers, jobsList, delIdx, pages, calls,
                   log, metrics>>

\* metrics.StartMetricsServer: the goroutine's ListenAndServe returns an error
\* and the fatal log exits the process, wherever main is
StartMetricsServer ==
    /\ pc \notin {"auth", "exited", "crashed"}
    /\ pc' = Fatal(pc)
    /\ IF Fatal(pc) = "exited"
       THEN \* the variables of main and the tick in progress end with the process
            /\ nsIdx' = 0
            /\ tickerC' = 0
            /\ continueToken' = 0
            /\ containers' = <<>>
            /\ jobsList' = <<>>
            /\ delIdx' = 0
            /\ pages' = <<>>
            /\ listed' = {}
            /\ calls' = <<>>
            /\ log' = <<>>
            /\ ctx' = "live"
       ELSE UNCHANGED <<nsIdx, tickerC, continueToken, containers, jobsList, delIdx,
                        pages, listed, calls, log, ctx>>
    /\ UNCHANGED <<config, manager, err, matcher, ticksFired, cluster, metrics>>

\* the runtime timer of time.NewTicker: a tick is dropped when ticker.C is full
TickerFire ==
    /\ pc \notin {"auth", "exited", "crashed"}
    /\ ticksFired < MaxTicks
    /\ ticksFired' = ticksFired + 1
    /\ tickerC' = 1
    /\ UNCHANGED <<listed, config, manager, err, ctx, matcher, pc, nsIdx, cluster, continueToken,
                   containers, jobsList, delIdx, pages, calls, log, metrics>>

\* a receive that does not wait for the end of the cycle in progress
ReceiveTickDuringCycle ==
    /\ pc \notin {"auth", "exited", "crashed", "blocked"}
    /\ tickerC = 1
    /\ tickerC' = 0
    /\ pc' = "pods"
    /\ nsIdx' = 1
    /\ pages' = <<>>
    /\ listed' = {}
    /\ calls' = <<>>
    /\ log' = <<>>
    /\ UNCHANGED <<config, manager, err, ctx, matcher, ticksFired, cluster, continueToken,
                   containers, jobsList, delIdx, metrics>>

\* for range ticker.C
ReceiveTick ==
    /\ pc = "idle"
    /\ tickerC = 1
    /\ tickerC' = 0
    /\ pc' = "pods"
    /\ nsIdx' = 1
    /\ pages' = <<>>
    /\ listed' = {}
    /\ calls' = <<>>
    /\ log' = <<>>
    /\ UNCHANGED <<config, manager, err, ctx, matcher, ticksFired, cluster, continueToken,
                   containers, jobsList, delIdx, metrics>>

\* if utils.Contains(RESOURCES, "PODS"): GetContainers up to its first request
PodsBranch ==
    /\ pc = "pods"
    /\ IF ~Contains(RESOURCES, <<"PODS">>)
       THEN /\ pc' = "jobs"
            /\ UNCHANGED <<nsIdx, log>>
       ELSE IF StatusesEmpty(containerStatuses)
       THEN /\ log' = Append(log, Record("list error", "containers", namespace, <<>>))
            /\ pc' = EndOfBody(nsIdx).pc
            /\ nsIdx' = EndOfBody(nsIdx).nsIdx
       ELSE /\ pc' = "listPods"
            /\ UNCHANGED <<nsIdx, log>>
    /\ continueToken' = 0
    /\ containers' = <<>>
    /\ pages' = <<>>
    /\ UNCHANGED <<listed, config, manager, err, ctx, matcher, tickerC, ticksFired, cluster, jobsList,
                   delIdx, calls, metrics>>

\* a listing that returns what it has collected when a page fails
GetContainersKeepsPartial ==
    /\ pc = "listPods"
    /\ \E podList \in ListResponses(InNamespace(cluster.pods, namespace), continueToken) :
        /\ listed' = listed \cup {ListCall("pods", namespace)}
        /\ pages' = Append(pages, podList)
        /\ IF podList.err
           THEN /\ pc' = "prunePods"
                /\ continueToken' = 0
                /\ UNCHANGED <<nsIdx, log, containers>>
           ELSE IF DereferencesNil(podList.items, containerStatuses)
           THEN /\ pc' = "crashed"
                /\ UNCHANGED <<nsIdx, log, containers, continueToken>>
           ELSE /\ containers' = containers \o ContainerInfos(podList.items, containerStatuses)
                /\ continueToken' = podList.next
                /\ pc' = IF podList.next = 0 THEN "prunePods" ELSE "listPods"
                /\ UNCHANGED <<nsIdx, log>>
    /\ UNCHANGED <<calls, config, manager, err, ctx, matcher, tickerC, ticksFired, cluster, jobsList,
                   delIdx, metrics>>

\* GetContainers: one turn of the pagination loop
GetContainers ==
    /\ pc = "listPods"
    /\ \E podList \in ListResponses(InNamespace(cluster.pods, namespace), continueToken) :
        /\ listed' = listed \cup {ListCall("pods", namespace)}
        /\ pages' = Append(pages, podList)
        /\ IF podList.err
           THEN /\ log' = Append(log, Record("list error", "containers", namespace, <<>>))
                /\ pc' = EndOfBody(nsIdx).pc
                /\ nsIdx' = EndOfBody(nsIdx).nsIdx
                /\ containers' = <<>>
                /\ continueToken' = 0
           ELSE IF DereferencesNil(podList.items, containerStatuses)
           THEN /\ pc' = "crashed"
                /\ UNCHANGED <<nsIdx, log, containers, continueToken>>
           ELSE /\ containers' = containers \o ContainerInfos(podList.items, containerStatuses)
                /\ continueToken' = podList.next
                /\ pc' = IF podList.next = 0 THEN "prunePods" ELSE "listPods"
                /\ UNCHANGED <<nsIdx, log>>
    /\ UNCHANGED <<calls, config, manager, err, ctx, matcher, tickerC, ticksFired, cluster, jobsList,
                   delIdx, metrics>>

\* a dry run that counts the items it would have pruned
HandlePruningContainersCountsDryRun ==
    /\ pc = "prunePods"
    /\ LET branch == handlePruning(containers, dryRun) IN
        /\ log' = Append(log, Record(branch, "containers", namespace, <<>>))
        /\ metrics' = IF branch = "dryrun"
                      THEN Add("containers", namespace, Len(containers))
                      ELSE metrics
        /\ IF branch = "delete"
           THEN /\ pc' = "delPods"
                /\ delIdx' = 1
                /\ UNCHANGED containers
           ELSE /\ pc' = "jobs"
                /\ delIdx' = 0
                /\ containers' = <<>>
    /\ UNCHANGED <<listed, config, manager, err, ctx, matcher, nsIdx, tickerC, ticksFired, cluster,
                   continueToken, jobsList, pages, calls>>

\* handlePruning("containers", containers, namespace, dryRun, ...)
HandlePruningContainers ==
    /\ pc = "prunePods"
    /\ LET branch == handlePruning(containers, dryRun) IN
        /\ log' = Append(log, Record(branch, "containers", namespace, <<>>))
        /\ IF branch = "delete"
           THEN /\ pc' = "delPods"
                /\ delIdx' = 1
                /\ UNCHANGED containers
           ELSE /\ pc' = "jobs"
                /\ delIdx' = 0
                /\ containers' = <<>>
    /\ UNCHANGED <<listed, config, manager, err, ctx, matcher, nsIdx, tickerC, ticksFired, cluster,
                   continueToken, jobsList, pages, calls, metrics>>

\* a loop that looks the pod up again and passes over it when none of its
\* containers matches any more
DeleteContainersRechecks ==
    /\ pc = "delPods"
    /\ delIdx <= Len(containers)
    /\ LET container == containers[delIdx]
           IsIt(o) == o.ns = container.Namespace /\ o.name = container.PodName
           now == SelectSeq(cluster.pods, IsIt)
       IN IF MatchingContainers(now, containerStatuses) = <<>>
          THEN /\ delIdx' = delIdx + 1
               /\ UNCHANGED <<calls, cluster, metrics, log, ctx>>
          ELSE \E ok \in DeleteResults(cluster.pods, container.Namespace,
                                       container.PodName) :
               /\ calls' = Append(calls, DeleteCall("pods", container.Namespace,
                                                    container.PodName, "", ok))
               /\ cluster' = IF ok
                             THEN [cluster EXCEPT !.pods =
                                     Remove(@, container.Namespace, container.PodName)]
                             ELSE cluster
               /\ metrics' = IF ok THEN Add("containers", container.Namespace, 1)
                             ELSE metrics
               /\ log' = Append(log, Record(IF ok THEN "deleted" ELSE "delete failed",
                                            "containers", container.Namespace,
                                            container.PodName))
               /\ delIdx' = delIdx + 1
               /\ ctx' = ctx
    /\ UNCHANGED <<listed, config, manager, err, matcher, pc, nsIdx, tickerC, ticksFired, continueToken,
                   containers, jobsList, pages>>

\* DeleteContainers: one turn of the range loop
DeleteContainers ==
    /\ pc = "delPods"
    /\ delIdx <= Len(containers)
    /\ LET container == containers[delIdx] IN
       \E ok \in WithContext(ctx, DeleteResults(cluster.pods, container.Namespace,
                                               container.PodName)) :
        /\ calls' = Append(calls, DeleteCall("pods", container.Namespace,
                                             container.PodName, "", ok))
        /\ cluster' = IF ok
                      THEN [cluster EXCEPT !.pods =
                              Remove(@, container.Namespace, container.PodName)]
                      ELSE cluster
        /\ metrics' = IF ok THEN Add("containers", container.Namespace, 1) ELSE metrics
        /\ log' = Append(log, Record(IF ok THEN "deleted" ELSE "delete failed",
                                     "containers", container.Namespace, container.PodName))
        /\ delIdx' = nextItem(delIdx, Len(containers), ok)
        \* the deadline of ctx can pass during a call that does not succeed
        /\ ctx' \in IF ok THEN {ctx} ELSE {ctx, "done"}
    /\ UNCHANGED <<listed, config, manager, err, matcher, pc, nsIdx, tickerC, ticksFired, continueToken,
                   containers, jobsList, pages>>

\* a deleter that returns while items of the batch are left
DeleteContainersReturnsEarly ==
    /\ pc = "delPods"
    /\ delIdx > 1
    /\ metrics' = Add("containers", namespace, Len(containers))
    /\ pc' = "jobs"
    /\ delIdx' = 0
    /\ containers' = <<>>
    /\ ctx' = "live"
    /\ UNCHANGED <<listed, config, manager, err, matcher, nsIdx, tickerC, ticksFired, cluster,
                   continueToken, jobsList, pages, calls, log>>

\* DeleteContainers returns; handlePruning adds len(items) to ContainersPruned
DeleteContainersReturn ==
    /\ pc = "delPods"
    /\ delIdx > Len(containers)
    /\ metrics' = Add("containers", namespace, Len(containers))
    /\ pc' = "jobs"
    /\ delIdx' = 0
    /\ containers' = <<>>
    /\ ctx' = "live"
    /\ UNCHANGED <<listed, config, manager, err, matcher, nsIdx, tickerC, ticksFired, cluster,
                   continueToken, jobsList, pages, calls, log>>

\* if utils.Contains(RESOURCES, "JOBS"): GetJobs
JobsBranch ==
    /\ pc = "jobs"
    /\ IF ~Contains(RESOURCES, <<"JOBS">>)
       THEN /\ pc' = EndOfBody(nsIdx).pc
            /\ nsIdx' = EndOfBody(nsIdx).nsIdx
            /\ UNCHANGED <<jobsList, pages, listed, log>>
       ELSE \/ \E jobs \in ListResponses(InNamespace(cluster.jobs, namespace), 0) :
               /\ listed' = listed \cup {ListCall("jobs", namespace)}
               /\ pages' = <<jobs>>
               /\ IF jobs.err
                  THEN /\ log' = Append(log, Record("list error", "jobs", namespace, <<>>))
                       /\ pc' = EndOfBody(nsIdx).pc
                       /\ nsIdx' = EndOfBody(nsIdx).nsIdx
                       /\ jobsList' = <<>>
                  ELSE /\ jobsList' = JobDescriptors(jobs.items, jobStatuses)
                       /\ pc' = "pruneJobs"
                       /\ UNCHANGED <<nsIdx, log>>
            \* the request is never answered: context.TODO() has no deadline
            \/ /\ ~Deadline("jobs")
               /\ listed' = listed \cup {ListCall("jobs", namespace)}
               /\ pc' = "blocked"
               /\ UNCHANGED <<nsIdx, log, jobsList, pages>>
    /\ UNCHANGED <<calls, config, manager, err, ctx, matcher, tickerC, ticksFired, cluster, continueToken,
                   containers, delIdx, metrics>>

\* handlePruning("jobs", jobs, namespace, dryRun, ...)
HandlePruningJobs ==
    /\ pc = "pruneJobs"
    /\ LET branch == handlePruning(jobsList, dryRun) IN
        /\ log' = Append(log, Record(branch, "jobs", namespace, <<>>))
        /\ IF branch = "delete"
           THEN /\ pc' = "delJobs"
                /\ delIdx' = 1
                /\ UNCHANGED <<nsIdx, jobsList>>
           ELSE /\ pc' = EndOfBody(nsIdx).pc
                /\ nsIdx' = EndOfBody(nsIdx).nsIdx
                /\ delIdx' = 0
                /\ jobsList' = <<>>
    /\ UNCHANGED <<listed, config, manager, err, ctx, matcher, tickerC, ticksFired, cluster, continueToken,
                   containers, pages, calls, metrics>>

\* DeleteJobs: one turn of the range loop
DeleteJobs ==
    /\ pc = "delJobs"
    /\ delIdx <= Len(jobsList)
    /\ LET job == jobsList[delIdx]
           jobParts == Split(job, "/")
       IN IF ~validJobParts(jobParts)
          THEN /\ log' = Append(log, Record("invalid", "jobs", namespace, job))
               /\ delIdx' = delIdx + 1
               /\ UNCHANGED <<calls, cluster>>
          ELSE \E ok \in DeleteResults(cluster.jobs, namespace, jobName(jobParts)) :
               /\ calls' = Append(calls, DeleteCall("jobs", namespace, jobName(jobParts),
                                                    propagationPolicy, ok))
               /\ cluster' = IF ok
                             THEN [cluster EXCEPT !.jobs =
                                     Remove(@, namespace, jobName(jobParts))]
                             ELSE cluster
               /\ log' = Append(log, Record(IF ok THEN "deleted" ELSE "delete failed",
                                            "jobs", namespace, jobName(jobParts)))
               /\ delIdx' = nextItem(delIdx, Len(jobsList), ok)
    /\ UNCHANGED <<listed, config, manager, err, ctx, matcher, pc, nsIdx, tickerC, ticksFired, continueToken,
                   containers, jobsList, pages, metrics>>

\* DeleteJobs returns; handlePruning adds len(items) to JobsPruned
DeleteJobsReturn ==
    /\ pc = "delJobs"
    /\ delIdx > Len(jobsList)
    /\ metrics' = Add("jobs", namespace, Len(jobsList))
    /\ pc' = EndOfBody(nsIdx).pc
    /\ nsIdx' = EndOfBody(nsIdx).nsIdx
    /\ delIdx' = 0
    /\ jobsList' = <<>>
    /\ UNCHANGED <<listed, config, manager, err, ctx, matcher, tickerC, ticksFired, cluster, continueToken,
                   containers, pages, calls, log>>

Next ==
    \/ GetKubernetesClient
    \/ StartMetricsServer
    \/ TickerFire
    \/ ReceiveTick
    \/ PodsBranch
    \/ GetContainers
    \/ HandlePruningContainers
    \/ DeleteContainers
    \/ DeleteContainersReturn
    \/ JobsBranch
    \/ HandlePruningJobs
    \/ DeleteJobs
    \/ DeleteJobsReturn

Spec == Init /\ [][Next]_vars

(***************************************************************************)
(* Applications of the listers to drawn inputs                             *)
(***************************************************************************)
MaxStatuses == 2

RECURSIVE SeqsUpTo(_, _)
SeqsUpTo(S, n) ==
    IF n = 0 THEN {<<>>}
    ELSE SeqsUpTo(S, n - 1)
         \cup {Append(q, x) : q \in {r \in SeqsUpTo(S, n - 1) : Len(r) = n - 1}, x \in S}

Reasons == {<<>>, <<"Error">>, <<"CrashLoopBackOff">>, <<"Completed">>}
SubStates == {Absent} \cup {Reason(r) : r \in Reasons}
ContainerStates == [waiting : SubStates, terminated : SubStates]

ConditionTypes == {<<>>, <<"Complete">>, <<"Failed">>, <<" ", "Complete">>}
ConditionReasons == {<<>>, <<"Complete">>}
ConditionStatuses == {"True", "False", "Unknown"}
Conditions == [type : ConditionTypes, reason : ConditionReasons, status : ConditionStatuses]

\* the process at a given position, with nothing listed yet
At(e, position, i, c) ==
    /\ env = e
    /\ dryRun = GetEnv(e.DRY_RUN, <<"true">>)
    /\ NAMESPACES = Split(Getenv(e.NAMESPACES), ",")
    /\ RESOURCES = Split(GetEnv(e.RESOURCES, <<"PODS">>), ",")
    /\ pc = position
    /\ nsIdx = i
    /\ tickerC = 0
    /\ ticksFired = 1
    /\ cluster = c
    /\ continueToken = 0
    /\ containers = <<>>
    /\ jobsList = <<>>
    /\ delIdx = 0
    /\ pages = <<>>
    /\ listed = {}
    /\ calls = <<>>
    /\ log = <<>>
    /\ metrics = [k \in {"containers", "jobs"} |-> [n \in NamespaceLabels |-> 0]]
    /\ err = FALSE
    /\ ctx = "live"
    /\ k8sManager = NewKubernetesClientManager
    /\ caller = [g \in Callers |-> NotCalled]

JobsOnly(js) ==
    [DRY_RUN |-> Unset, NAMESPACES |-> Value(<<"ns1">>), RESOURCES |-> Value(<<"JOBS">>),
     CONTAINER_STATUSES |-> Unset, JOB_STATUSES |-> js]

\* isContainerInState applied to any container state and any list of statuses
InitMatcher ==
    /\ At(JobsOnly(Unset), "exited", 0, [pods |-> <<>>, jobs |-> <<>>])
    /\ mIn \in [cs : ContainerStates, statuses : SeqsUpTo(Reasons, MaxStatuses)]
    /\ mOut = [done |-> FALSE, val |-> FALSE]

ApplyMatcher ==
    /\ ~mOut.done
    /\ mOut' = [done |-> TRUE, val |-> isContainerInState(mIn.cs, mIn.statuses)]
    /\ UNCHANGED <<listed, config, manager, err, ctx, pc, nsIdx, tickerC, ticksFired, cluster, continueToken,
                   containers, jobsList, delIdx, pages, calls, log, metrics, mIn>>

SpecMatcher == InitMatcher /\ [][ApplyMatcher]_vars

\* GetJobs applied to a namespace holding a job with any conditions
InitGetJobs ==
    /\ \E js \in JobStatusesValues, conds \in SeqsUpTo(Conditions, MaxConds) :
         At(JobsOnly(js), "jobs", 1,
            [pods |-> <<>>,
             jobs |-> << Job(<<"ns1">>, <<"j1">>, conds),
                         Job(<<"ns1">>, <<"j2">>,
                             <<Condition(<<"Complete">>, <<>>, "True")>>) >>])
    /\ mIn = [cs |-> Running, statuses |-> <<>>]
    /\ mOut = [done |-> FALSE, val |-> FALSE]

SpecGetJobs == InitGetJobs /\ [][JobsBranch]_vars

MaxItems == 2

\* the strings a batch of DeleteJobs can hold: descriptors as GetJobs formats
\* them, one of a condition type that holds "/", and strings without "/"
Descriptors ==
    { SprintfDescriptor(<<"ns1">>, <<"j1">>, <<"Complete">>),
      SprintfDescriptor(<<"ns1">>, <<"j2">>, <<"Failed">>),
      SprintfDescriptor(<<"ns1">>, <<"j1">>, <<"a", "/", "b">>),
      <<"j1", ":", " ", "Complete">>,
      <<>> }

\* DeleteJobs applied in live mode to any batch of such strings
InitDeleteJobs ==
    /\ env = [JobsOnly(Unset) EXCEPT !.DRY_RUN = Value(<<"false">>)]
    /\ dryRun = GetEnv(env.DRY_RUN, <<"true">>)
    /\ NAMESPACES = Split(Getenv(env.NAMESPACES), ",")
    /\ RESOURCES = Split(GetEnv(env.RESOURCES, <<"PODS">>), ",")
    /\ pc = "delJobs"
    /\ nsIdx = 1
    /\ tickerC = 0
    /\ ticksFired = 1
    /\ cluster = [pods |-> <<>>, jobs |-> ClusterJobs]
    /\ continueToken = 0
    /\ containers = <<>>
    /\ jobsList \in SeqsUpTo(Descriptors, MaxItems)
    /\ delIdx = 1
    /\ pages = <<>>
    /\ listed = {}
    /\ calls = <<>>
    /\ log = <<>>
    /\ metrics = [k \in {"containers", "jobs"} |-> [n \in NamespaceLabels |-> 0]]
    /\ err = FALSE
    /\ ctx = "live"
    /\ k8sManager = NewKubernetesClientManager
    /\ caller = [g \in Callers |-> NotCalled]
    /\ mIn = [cs |-> Running, statuses |-> <<>>]
    /\ mOut = [done |-> FALSE, val |-> FALSE]

SpecDeleteJobs == InitDeleteJobs /\ [][DeleteJobs \/ DeleteJobsReturn]_vars

\* the cluster outside the program: after a listing has returned and before
\* its result is handled, a pod's containers are running again, or a job has
\* lost its conditions
ObjectChanges ==
    /\ pc \in {"prunePods", "pruneJobs"}
    /\ \/ \E i \in 1..Len(cluster.pods) :
            /\ cluster.pods[i].cs # <<Running>>
            /\ cluster' = [cluster EXCEPT !.pods[i].cs = <<Running>>]
       \/ \E i \in 1..Len(cluster.jobs) :
            /\ cluster.jobs[i].conds # <<>>
            /\ cluster' = [cluster EXCEPT !.jobs[i].conds = <<>>]
    /\ UNCHANGED <<listed, config, manager, err, ctx, matcher, pc, nsIdx, tickerC, ticksFired,
                   continueToken, containers, jobsList, delIdx, pages, calls, log, metrics>>

LiveIn(ns, js) ==
    [DRY_RUN |-> Value(<<"false">>), NAMESPACES |-> Value(ns),
     RESOURCES |-> Value(<<"PODS", ",", "JOBS">>),
     CONTAINER_STATUSES |-> Value(<<"Error">>), JOB_STATUSES |-> js]

\* one cycle in live mode over a cluster that changes between list and delete
InitStale ==
    /\ \E js \in {Unset, Value(<<"Complete", ",", "Failed">>)} :
         At(LiveIn(<<"ns1">>, js), "pods", 1, [pods |-> ClusterPods, jobs |-> ClusterJobs])
    /\ mIn = [cs |-> Running, statuses |-> <<>>]
    /\ mOut = [done |-> FALSE, val |-> FALSE]

NextStale ==
    \/ PodsBranch
    \/ GetContainers
    \/ HandlePruningContainers
    \/ DeleteContainers
    \/ DeleteContainersReturn
    \/ JobsBranch
    \/ HandlePruningJobs
    \/ DeleteJobs
    \/ DeleteJobsReturn
    \/ ObjectChanges

SpecStale == InitStale /\ [][NextStale]_vars

\* the result of a listing is kept aside and the same listing is called again
ListAgain ==
    /\ pc \in {"prunePods", "pruneJobs"}
    /\ ~mOut.done
    /\ mOut' = [done |-> TRUE, val |-> IF pc = "prunePods" THEN containers ELSE jobsList]
    /\ pc' = IF pc = "prunePods" THEN "pods" ELSE "jobs"
    /\ containers' = <<>>
    /\ jobsList' = <<>>
    /\ UNCHANGED <<listed, config, manager, err, ctx, nsIdx, tickerC, ticksFired, cluster,
                   continueToken, delIdx, pages, calls, log, metrics, mIn>>

\* GetContainers or GetJobs called twice on the same namespace of a cluster
\* that does not change
InitListTwice ==
    /\ \E ns \in {<<"ns1">>, <<"ns2">>},
          cs \in {Value(<<"Error">>), Value(<<"Completed">>)},
          js \in JobStatusesValues, position \in {"pods", "jobs"} :
         At([LiveIn(ns, js) EXCEPT !.CONTAINER_STATUSES = cs], position, 1,
            [pods |-> ClusterPods, jobs |-> ClusterJobs])
    /\ mIn = [cs |-> Running, statuses |-> <<>>]
    /\ mOut = [done |-> FALSE, val |-> <<>>]

NextListTwice ==
    \/ PodsBranch
    \/ GetContainers
    \/ JobsBranch
    \/ ListAgain

SpecListTwice == InitListTwice /\ [][NextListTwice]_vars

\* a kind name or a status as it is, with a space before it, with a space
\* after it, and in lower case
Spellings(w) == {<<w>>, <<" ", w>>, <<w, " ">>, Lower(<<w>>)}

\* the three comparisons of a string with the tokens of a configured list:
\* utils.Contains as main applies it to RESOURCES, isContainerInState on the
\* reason of a container state, and the test of GetJobs on a condition type
InitContains ==
    /\ At(JobsOnly(Unset), "exited", 0, [pods |-> <<>>, jobs |-> <<>>])
    /\ \E str \in Spellings("JOBS") \cup Spellings("Complete"),
          list \in SeqsUpTo(Spellings("JOBS") \cup Spellings("Complete"), MaxStatuses) :
         mIn \in {[cs |-> Terminated(str), statuses |-> list],
                  [cs |-> Waiting(str), statuses |-> list]}
    /\ mOut = [done |-> FALSE, val |-> FALSE]

observed == IF mIn.cs.waiting.set THEN mIn.cs.waiting.reason ELSE mIn.cs.terminated.reason

ApplyContains ==
    /\ ~mOut.done
    /\ mOut' = [done |-> TRUE,
                val |-> [kind |-> Contains(mIn.statuses, observed),
                         pod |-> isContainerInState(mIn.cs, mIn.statuses),
                         job |-> jobStatusMatches(mIn.statuses,
                                                  Condition(observed, <<>>, "True"))]]
    /\ UNCHANGED <<listed, config, manager, err, ctx, pc, nsIdx, tickerC, ticksFired, cluster, continueToken,
                   containers, jobsList, delIdx, pages, calls, log, metrics, mIn>>

SpecContains == InitContains /\ [][ApplyContains]_vars

\* the rest of the program while GetKubernetesClient is called
main == <<listed, config, err, ctx, matcher, pc, nsIdx, tickerC, ticksFired, cluster,
          continueToken, containers, jobsList, delIdx, pages, calls, log, metrics>>

\* k8sManager.GetKubernetesClient() is called: var err error
Call(c) ==
    /\ caller[c].at = "idle"
    /\ caller' = [caller EXCEPT ![c].at = "once.Do"]
    /\ UNCHANGED <<main, k8sManager>>

\* k8sManager.once.Do: the first call runs the function, a call that finds it running
\* waits for its end, a call that finds it done goes on
OnceDo(c) ==
    /\ caller[c].at = "once.Do"
    /\ \/ /\ k8sManager.once = "new"
          /\ k8sManager' = [k8sManager EXCEPT !.once = "running"]
          /\ caller' = [caller EXCEPT ![c].at = "func"]
       \/ /\ k8sManager.once = "done"
          /\ caller' = [caller EXCEPT ![c].at = "return"]
          /\ UNCHANGED k8sManager
    /\ UNCHANGED main

\* the function given to once.Do, run by the first call
OnceFunc(c) ==
    /\ caller[c].at = "func"
    /\ \E outcome \in ClientOutcomes :
        /\ k8sManager' = [once |-> "done", clientset |-> onceFunc(outcome).clientset]
        /\ caller' = [caller EXCEPT ![c].at = "return", ![c].err = onceFunc(outcome).err]
    /\ UNCHANGED main

\* if err != nil { return nil, err }; return m.clientset, nil
ReturnClient(c) ==
    /\ caller[c].at = "return"
    /\ caller' = [caller EXCEPT ![c].at = "returned",
                                ![c].ret = clientReturn(k8sManager, caller[c].err)]
    /\ UNCHANGED <<main, k8sManager>>

\* calls of GetKubernetesClient on one manager, one after another or at once
InitAuth ==
    /\ At(JobsOnly(Unset), "auth", 0, [pods |-> <<>>, jobs |-> <<>>])
    /\ mIn = [cs |-> Running, statuses |-> <<>>]
    /\ mOut = [done |-> FALSE, val |-> FALSE]

NextAuth == \E c \in Callers : Call(c) \/ OnceDo(c) \/ OnceFunc(c) \/ ReturnClient(c)

SpecAuth == InitAuth /\ [][NextAuth]_vars

(***************************************************************************)
(* Properties                                                              *)
(***************************************************************************)
CyclePositions ==
    {"pods", "listPods", "prunePods", "delPods", "jobs", "pruneJobs", "delJobs"}

\* the call issued for item k of the batch the deleter is working on
BatchCall(k) == calls[Len(calls) - (delIdx - 1) + k]

HasPrefix(s, prefix) == Len(s) >= Len(prefix) /\ SubSeq(s, 1, Len(prefix)) = prefix

RECURSIVE AllItems(_)
AllItems(ps) == IF ps = <<>> THEN <<>> ELSE ps[1].items \o AllItems(Tail(ps))

\* the pods of the answered pages with a matching container, once per match
ListedPods ==
    LET m == MatchingContainers(AllItems(pages), containerStatuses)
    IN [i \in 1..Len(m) |-> m[i].pod]

\* the jobs of the answered page with a matching condition, once per match
ListedJobs ==
    LET Match(x) == jobStatusMatches(jobStatuses, x.cond)
        m == SelectSeq(JobConditions(AllItems(pages)), Match)
    IN [i \in 1..Len(m) |-> m[i].job]

DryRunMode == ~env.DRY_RUN.set \/ env.DRY_RUN.val = <<"true">>

\* C1: with DRY_RUN "true" or unset, no delete call for a pod or a job is
\* ever issued, in any tick and whatever the listings return.
C1_DryRunIssuesNoDelete ==
    DryRunMode => \A i \in 1..Len(calls) : calls[i].op # "delete"

C1_Witness ==
    /\ ~env.DRY_RUN.set
    /\ ticksFired >= 2
    /\ \E i, j \in 1..Len(log) :
        /\ log[i].ev = "dryrun" /\ log[i].kind = "containers"
        /\ log[j].ev = "dryrun" /\ log[j].kind = "jobs"

\* C2: whatever the results of the delete calls of a batch, the deleter has
\* issued one delete call for each item it has passed, in order, and its
\* loop index stays within the batch, so that the invocation runs to its
\* end: a failed delete call neither stops nor skips the remaining items.
C2_FailedDeleteIsolated ==
    /\ pc = "delPods" =>
        /\ delIdx \in 1..(Len(containers) + 1)
        /\ Len(calls) >= delIdx - 1
        /\ \A k \in 1..(delIdx - 1) :
            /\ BatchCall(k).op = "delete"
            /\ BatchCall(k).kind = "pods"
            /\ BatchCall(k).ns = containers[k].Namespace
            /\ BatchCall(k).name = containers[k].PodName
    /\ pc = "delJobs" =>
        /\ delIdx \in 1..(Len(jobsList) + 1)
        /\ Len(calls) >= delIdx - 1
        /\ \A k \in 1..(delIdx - 1) :
            /\ BatchCall(k).op = "delete"
            /\ BatchCall(k).kind = "jobs"
            /\ \E n \in NamespaceLabels :
                 HasPrefix(jobsList[k], n \o <<"/">> \o BatchCall(k).name \o <<":">>)

C2_Witness ==
    /\ pc = "delPods"
    /\ Len(containers) = 2
    /\ delIdx = 3
    /\ ~BatchCall(1).ok
    /\ BatchCall(2).ok

\* C3: once the cycle of a tick is past a namespace, every enabled kind of
\* that namespace has been listed in this tick: a failed listing of the pods
\* skips neither the jobs of the same namespace nor the other namespaces.
C3_ListingFailureSkipsOnlyItsPair ==
    \A i \in 1..Len(NAMESPACES) :
        ((pc \in CyclePositions /\ i < nsIdx) \/ (pc = "idle" /\ log # <<>>)) =>
            /\ Contains(RESOURCES, <<"PODS">>) =>
                \/ ListCall("pods", NAMESPACES[i]) \in listed
                \/ \E l \in 1..Len(log) :
                     log[l].ev = "list error" /\ log[l].kind = "containers"
                     /\ log[l].ns = NAMESPACES[i]
            /\ Contains(RESOURCES, <<"JOBS">>) =>
                ListCall("jobs", NAMESPACES[i]) \in listed

\* C4: in live mode the delete call issued for a listed descriptor targets
\* the kind, the namespace and the name of the object that was listed.
C4_DeleteTargetsListedObject ==
    /\ pc = "delPods" =>
        \A k \in 1..(delIdx - 1) :
            /\ BatchCall(k).op = "delete"
            /\ BatchCall(k).kind = "pods"
            /\ BatchCall(k).ns = ListedPods[k].ns
            /\ BatchCall(k).name = ListedPods[k].name
    /\ pc = "delJobs" =>
        \A k \in 1..(delIdx - 1) :
            /\ BatchCall(k).op = "delete"
            /\ BatchCall(k).kind = "jobs"
            /\ BatchCall(k).ns = ListedJobs[k].ns
            /\ BatchCall(k).name = ListedJobs[k].name

\* C5: with CONTAINER_STATUSES unset or empty the pod listing yields no
\* descriptor and no pod delete call is issued, whatever the pods' states.
C5_EmptyContainerFilterPrunesNothing ==
    (~env.CONTAINER_STATUSES.set \/ env.CONTAINER_STATUSES.val = <<>>) =>
        /\ containers = <<>>
        /\ \A i \in 1..Len(calls) : ~(calls[i].op = "delete" /\ calls[i].kind = "pods")

C5_Witness ==
    /\ ~env.CONTAINER_STATUSES.set
    /\ ~DryRunMode
    /\ pc = "pods"
    /\ nsIdx = 2
    /\ \E l \in 1..Len(log) : log[l].ev = "list error" /\ log[l].kind = "containers"

\* C6: with JOB_STATUSES set to the empty string no job matches, whatever its
\* conditions, and no job delete call is issued.
C6_EmptyJobFilterPrunesNothing ==
    env.JOB_STATUSES = Value(<<>>) =>
        /\ jobsList = <<>>
        /\ \A i \in 1..Len(calls) : ~(calls[i].op = "delete" /\ calls[i].kind = "jobs")

\* C7: the pod matcher answers true exactly when the state has a waiting
\* sub-state whose reason is one of the statuses or a terminated sub-state
\* whose reason is one of the statuses; with both absent it answers false.
C7_MatcherIsWaitingOrTerminatedInSet ==
    mOut.done =>
        /\ mOut.val <=>
            \/ /\ mIn.cs.waiting.set
               /\ \E i \in 1..Len(mIn.statuses) : mIn.statuses[i] = mIn.cs.waiting.reason
            \/ /\ mIn.cs.terminated.set
               /\ \E i \in 1..Len(mIn.statuses) : mIn.statuses[i] = mIn.cs.terminated.reason
        /\ (~mIn.cs.waiting.set /\ ~mIn.cs.terminated.set) => ~mOut.val

C7_Witness ==
    /\ mOut.done
    /\ mOut.val
    /\ mIn.cs.waiting.set
    /\ ~mIn.cs.terminated.set
    /\ Len(mIn.statuses) = 2

JobFilterSet == {jobStatuses[i] : i \in 1..Len(jobStatuses)}

DescriptorsOf(job) ==
    Cardinality({k \in 1..Len(jobsList) :
        HasPrefix(jobsList[k], job.ns \o <<"/">> \o job.name \o <<":">>)})

C9_PodListingReturnsAllPages ==
    (pc \in {"listPods", "prunePods", "crashed"} /\ pages # <<>>
        /\ \A i \in 1..Len(pages) : ~pages[i].err) =>
        /\ pages[1].token = 0
        /\ \A i \in 1..(Len(pages) - 1) :
             pages[i].next # 0 /\ pages[i + 1].token = pages[i].next
        /\ pc # "crashed"
        /\ (pc = "prunePods") = (pages[Len(pages)].next = 0)
        /\ Len(containers) = Len(ListedPods)
        /\ \A k \in 1..Len(containers) :
             /\ containers[k].Namespace = ListedPods[k].ns
             /\ containers[k].PodName = ListedPods[k].name

\* C10: a job listing that returns holds the matching jobs of every page of
\* the namespace, not only those of the first answer.
C10_JobListingFollowsContinuation ==
    pc = "pruneJobs" =>
        /\ pages[Len(pages)].next = 0
        /\ jobsList = JobDescriptors(InNamespace(cluster.jobs, namespace), jobStatuses)

\* the step issues a delete call of the kind that succeeds in namespace n
Succeeds(kind, n) ==
    /\ Len(calls') = Len(calls) + 1
    /\ calls'[Len(calls')].kind = kind
    /\ calls'[Len(calls')].ns = n
    /\ calls'[Len(calls')].ok

\* C11: the container counter of a namespace grows by one in a step that
\* issues a successful pod delete call in that namespace and in no other
\* step, so that it counts exactly the successful pod deletions.
C11_ContainerCounterCountsSuccesses ==
    [][\A n \in NamespaceLabels :
         metrics'["containers"][n] =
            metrics["containers"][n] + (IF Succeeds("pods", n) THEN 1 ELSE 0)]_vars

\* C12: the job counter of a namespace grows by one in a step that issues a
\* successful job delete call in that namespace and in no other step: a
\* failed or skipped deletion adds nothing.
C12_JobCounterCountsSuccesses ==
    [][\A n \in NamespaceLabels :
         metrics'["jobs"][n] =
            metrics["jobs"][n] + (IF Succeeds("jobs", n) THEN 1 ELSE 0)]_vars

Allowed(kind) == \E i \in 1..Len(RESOURCES) : RESOURCES[i] = kind

\* C13: a kind that is not an element of RESOURCES is neither listed nor
\* deleted in any namespace; with RESOURCES unset only PODS is allowed, and
\* no job is listed or deleted.
C13_KindNotAllowedNeverTouched ==
    /\ ~Allowed(<<"PODS">>) =>
        /\ \A l \in listed : l.kind # "pods"
        /\ \A i \in 1..Len(calls) : calls[i].kind # "pods"
    /\ ~Allowed(<<"JOBS">>) =>
        /\ \A l \in listed : l.kind # "jobs"
        /\ \A i \in 1..Len(calls) : calls[i].kind # "jobs"
    /\ ~env.RESOURCES.set =>
        /\ RESOURCES = << <<"PODS">> >>
        /\ \A l \in listed : l.kind # "jobs"
        /\ \A i \in 1..Len(calls) : calls[i].kind # "jobs"

C13_Witness ==
    /\ env.RESOURCES = Value(<<"PODS", ",", " ", "JOBS">>)
    /\ pc = "idle"
    /\ ticksFired = 2
    /\ \E i \in 1..Len(calls) : calls[i].kind = "pods" /\ calls[i].ok
    /\ Cardinality(listed) = 2

\* C14: every step that issues a job delete call gives it the background
\* propagation policy and moves the deleter to its next item in that same
\* step, with the pods of the cluster as they were: the deleter does not
\* wait for the removal of the pods the job owns.
C14_JobDeleteIsBackground ==
    [][(Len(calls') = Len(calls) + 1 /\ calls'[Len(calls')].kind = "jobs") =>
          /\ calls'[Len(calls')].policy = "Background"
          /\ pc' = "delJobs"
          /\ delIdx' = delIdx + 1
          /\ cluster'.pods = cluster.pods]_vars

C14_Witness ==
    /\ pc = "delJobs"
    /\ Len(jobsList) = 2
    /\ delIdx = 2
    /\ calls[Len(calls)].kind = "jobs"
    /\ calls[Len(calls)].ok

\* C15: with NAMESPACES unset or empty the namespace list is the single
\* empty namespace, and no cycle over it issues a delete call or crashes
\* the process, in dry-run and in live mode.
C15_EmptyNamespacesPrunesNothing ==
    (~env.NAMESPACES.set \/ env.NAMESPACES.val = <<>>) =>
        /\ NAMESPACES = << <<>> >>
        /\ calls = <<>>
        /\ pc # "crashed"

\* C16: once the client is built, no failure ends the process: the
\* scheduler is never terminated by an exit or a crash.
C16_NoFailureTerminatesAfterStartup ==
    (pc # "auth" /\ ~err) => pc \notin {"exited", "crashed"}

\* C17: when the construction of the client fails, the process has exited
\* without a tick, a list request or a delete call.
C17_AuthFailureAbortsBeforeScheduler ==
    err =>
        /\ pc = "exited"
        /\ ticksFired = 0
        /\ tickerC = 0
        /\ listed = {}
        /\ calls = <<>>

C17_Witness ==
    /\ err
    /\ pc = "exited"

\* C18: a tick is taken from the ticker only when no cycle is in progress,
\* and a cycle in progress ends only from the last namespace of the list:
\* the cycle of a tick starts after the cycle before it has finished.
C18_CyclesNeverOverlap ==
    [][/\ (tickerC = 1 /\ tickerC' = 0 /\ pc' # "exited") =>
            /\ pc = "idle"
            /\ containers = <<>> /\ jobsList = <<>> /\ delIdx = 0
            /\ pc' = "pods" /\ nsIdx' = 1
       /\ (pc \in CyclePositions /\ pc' = "idle") => nsIdx = Len(NAMESPACES)
       /\ (pc \in CyclePositions /\ pc' \in CyclePositions) =>
            nsIdx' \in {nsIdx, nsIdx + 1}]_vars

C18_Witness ==
    /\ ticksFired = 2
    /\ tickerC = 0
    /\ pc = "listPods"
    /\ calls = <<>>
    /\ cluster.pods # ClusterPods
    /\ Len(NAMESPACES) = 2

\* C19: every tick the timer fires is added to the ticks waiting for the
\* loop: none is dropped or merged with a tick that is still waiting.
C19_TicksNotDropped ==
    [][ticksFired' = ticksFired + 1 => tickerC' = tickerC + 1]_vars

\* C20: no listing waits forever for the answer to a list request: it ends
\* with an error when the time budget is spent.
C20_ListingIsBounded ==
    pc # "blocked"

\* C21: with DRY_RUN set to anything but "true", handlePruning calls the
\* deleter for every listing result that is not empty, pods and jobs.
C21_NotTrueIsLive ==
    [][(env.DRY_RUN.set /\ env.DRY_RUN.val # <<"true">>) =>
         /\ (pc = "prunePods" /\ containers # <<>> /\ pc' \notin {"prunePods", "exited"}) =>
               (pc' = "delPods" /\ delIdx' = 1 /\ containers' = containers)
         /\ (pc = "pruneJobs" /\ jobsList # <<>> /\ pc' \notin {"pruneJobs", "exited"}) =>
               (pc' = "delJobs" /\ delIdx' = 1 /\ jobsList' = jobsList)]_vars

C21_Witness ==
    /\ env.DRY_RUN = Value(<<>>)
    /\ pc = "delJobs"
    /\ delIdx = 2
    /\ \E i \in 1..Len(calls) : calls[i].kind = "pods"

OutcomeEvents == {"list error", "nothing", "dryrun", "delete"}

\* the outcomes logged in this tick for a kind ("containers", "jobs") and a namespace
Outcomes(kind, ns) ==
    Cardinality({l \in 1..Len(log) :
        log[l].kind = kind /\ log[l].ns = ns /\ log[l].ev \in OutcomeEvents})

\* C22: at the end of a cycle every allowed kind of every namespace has
\* exactly one outcome (listing error, nothing to prune, dry-run logged,
\* deleter called), and the deleter was called only in live mode.
C22_OneOutcomePerPair ==
    (pc = "idle" /\ log # <<>>) =>
        /\ \A i \in 1..Len(NAMESPACES) :
            /\ Allowed(<<"PODS">>) => Outcomes("containers", NAMESPACES[i]) = 1
            /\ Allowed(<<"JOBS">>) => Outcomes("jobs", NAMESPACES[i]) = 1
        /\ calls # <<>> => dryRun # <<"true">>

\* C23: with CONTAINER_STATUSES unset or empty and both kinds allowed, the
\* jobs of every namespace have been listed when the cycle ends.
C23_EmptyContainerFilterKeepsJobs ==
    ((~env.CONTAINER_STATUSES.set \/ env.CONTAINER_STATUSES.val = <<>>)
        /\ Allowed(<<"PODS">>) /\ Allowed(<<"JOBS">>)
        /\ pc = "idle" /\ log # <<>>) =>
        \A i \in 1..Len(NAMESPACES) : ListCall("jobs", NAMESPACES[i]) \in listed

\* C24: a pod listing does not crash on a container that matches, and the
\* status of every descriptor it holds is one of the statuses of the filter.
C24_WaitingMatchIsListed ==
    /\ pc # "crashed"
    /\ \A k \in 1..Len(containers) : Contains(containerStatuses, containers[k].Status)

\* C25: a deleter is left only when its loop is past the last item of the
\* batch, every pod of the batch having had its delete call, and a list
\* request is issued only when no deleter is running.
C25_DeleterReturnsAfterAllItems ==
    [][/\ (pc = "delPods" /\ pc' \notin {"delPods", "exited"}) =>
            /\ delIdx = Len(containers) + 1
            /\ Len(calls) >= Len(containers)
            /\ \A k \in 1..Len(containers) :
                 BatchCall(k).kind = "pods" /\ BatchCall(k).name = containers[k].PodName
            /\ pc' = "jobs"
       /\ (pc = "delJobs" /\ pc' \notin {"delJobs", "exited"}) =>
            /\ delIdx = Len(jobsList) + 1
            /\ pc' \in {"pods", "idle"}
       /\ (listed' # listed /\ listed' # {}) => pc \notin {"delPods", "delJobs"}]_vars

C25_Witness ==
    /\ pc = "jobs"
    /\ nsIdx = 1
    /\ Len(calls) = 2
    /\ calls[1].kind = "pods" /\ ~calls[1].ok
    /\ calls[2].kind = "pods" /\ calls[2].ok

\* C26: the delete calls of a batch overlap: while the call of the current
\* item has not completed, the call of the item after it can be issued.
C26_DeleteCallsOverlap ==
    (pc = "delPods" /\ delIdx < Len(containers)) =>
        ENABLED (/\ Next
                 /\ Len(calls') = Len(calls) + 1
                 /\ calls'[Len(calls')].name = containers[delIdx + 1].PodName)

\* C27: the items of a batch share no deadline: no item is left to be
\* attempted with a context whose deadline the other calls have used up.
C27_NoSharedDeadline ==
    (pc = "delPods" /\ delIdx <= Len(containers)) => ctx = "live"

\* C28: a pod listing holds at most one descriptor for a pod.
C28_OneDescriptorPerPod ==
    \A k, l \in 1..Len(containers) :
        (containers[k].Namespace = containers[l].Namespace
            /\ containers[k].PodName = containers[l].PodName) => k = l

\* C29 (as stated): an object is attempted once per tick: the delete calls
\* of a tick hold at most one call for an object.
C29_ObjectAttemptedOncePerTick ==
    \A i, j \in 1..Len(calls) :
        (calls[i].kind = calls[j].kind /\ calls[i].ns = calls[j].ns
            /\ calls[i].name = calls[j].name) => i = j

\* C29: a turn of a deleter's loop issues one delete call, for the current
\* descriptor, and moves to the next descriptor whatever the result: a failed
\* item is attempted again only through the listing of a later tick, where it
\* is attempted once per descriptor the listing holds for it.
C29_DescriptorAttemptedOncePerTick ==
    [][/\ (pc = "delPods" /\ pc' = "delPods" /\ (delIdx' # delIdx \/ calls' # calls)) =>
            /\ delIdx' = delIdx + 1
            /\ Len(calls') = Len(calls) + 1
            /\ SubSeq(calls', 1, Len(calls)) = calls
            /\ calls'[Len(calls')].kind = "pods"
            /\ calls'[Len(calls')].ns = containers[delIdx].Namespace
            /\ calls'[Len(calls')].name = containers[delIdx].PodName
       /\ (pc = "delJobs" /\ pc' = "delJobs" /\ (delIdx' # delIdx \/ calls' # calls)) =>
            /\ delIdx' = delIdx + 1
            /\ Len(calls') = Len(calls) + 1
            /\ SubSeq(calls', 1, Len(calls)) = calls
            /\ calls'[Len(calls')].kind = "jobs"
            /\ calls'[Len(calls')].ns = namespace
            /\ \E n \in NamespaceLabels :
                 HasPrefix(jobsList[delIdx],
                           n \o <<"/">> \o calls'[Len(calls')].name \o <<":">>)]_vars

\* the second tick attempts p1 again, both deletes of the first tick having failed
C29_Witness ==
    /\ ticksFired = 2
    /\ pc = "delPods"
    /\ namespace = <<"ns1">>
    /\ delIdx = 2
    /\ calls = <<DeleteCall("pods", <<"ns1">>, <<"p1">>, "", FALSE)>>
    /\ cluster.pods = ClusterPods
    /\ metrics["containers"][<<"ns1">>] = 2

\* a string that does not hold exactly one "/" has no namespace and name parts
Malformed(job) == Cardinality({i \in 1..Len(job) : job[i] = "/"}) # 1

\* C30: of the items the deleter has passed, each descriptor that cannot be
\* split into a namespace and a name has a log record and no delete call, and
\* each other item has its delete call; the process does not crash.
C30_MalformedDescriptorSkipped ==
    /\ pc # "crashed"
    /\ pc = "delJobs" =>
        /\ delIdx \in 1..(Len(jobsList) + 1)
        /\ LET passed == 1..(delIdx - 1)
               bad == {k \in passed : Malformed(jobsList[k])}
               good == passed \ bad
               Sel(i) == Cardinality({k \in good : k <= i})
           IN /\ Len(calls) = Cardinality(good)
              /\ \A k \in good :
                   /\ calls[Sel(k)].kind = "jobs"
                   /\ HasPrefix(jobsList[k],
                                <<"ns1", "/">> \o calls[Sel(k)].name \o <<":">>)
              /\ Cardinality({i \in 1..Len(log) : log[i].ev = "invalid"}) = Cardinality(bad)
              /\ \A k \in bad :
                   \E i \in 1..Len(log) :
                       log[i] = Record("invalid", "jobs", namespace, jobsList[k])

C30_Witness ==
    /\ pc = "delJobs"
    /\ delIdx = 3
    /\ jobsList[1] = SprintfDescriptor(<<"ns1">>, <<"j1">>, <<"a", "/", "b">>)
    /\ ~Malformed(jobsList[2])
    /\ Len(calls) = 1
    /\ log[1].ev = "invalid"

\* an object of the cluster that matches its filter now
PodMatchesNow(ns, name) ==
    LET IsIt(o) == o.ns = ns /\ o.name = name
    IN MatchingContainers(SelectSeq(cluster.pods, IsIt), containerStatuses) # <<>>

JobMatchesNow(name) ==
    LET IsIt(o) == o.name = name
    IN JobDescriptors(SelectSeq(cluster.jobs, IsIt), jobStatuses) # <<>>

\* C31: a turn of a deleter's loop on a descriptor whose pod or job does not
\* match the filter any more still issues the delete call for it.
C31_StatusNotRecheckedAtDelete ==
    [][/\ (/\ pc = "delPods" /\ pc' = "delPods" /\ delIdx <= Len(containers)
           /\ delIdx' # delIdx
           /\ ~PodMatchesNow(containers[delIdx].Namespace, containers[delIdx].PodName)) =>
            /\ Len(calls') = Len(calls) + 1
            /\ calls'[Len(calls')].kind = "pods"
            /\ calls'[Len(calls')].ns = containers[delIdx].Namespace
            /\ calls'[Len(calls')].name = containers[delIdx].PodName
       /\ (/\ pc = "delJobs" /\ pc' = "delJobs" /\ delIdx <= Len(jobsList)
           /\ delIdx' # delIdx
           /\ ~JobMatchesNow(jobName(Split(jobsList[delIdx], "/")))) =>
            /\ Len(calls') = Len(calls) + 1
            /\ calls'[Len(calls')].kind = "jobs"
            /\ calls'[Len(calls')].name = jobName(Split(jobsList[delIdx], "/"))]_vars

\* p1 was listed, then stopped matching, and its delete call was issued
C31_Witness ==
    /\ pc = "delPods"
    /\ delIdx = 2
    /\ calls = <<DeleteCall("pods", <<"ns1">>, <<"p1">>, "", FALSE)>>
    /\ Exists(cluster.pods, <<"ns1">>, <<"p1">>)
    /\ ~PodMatchesNow(<<"ns1">>, <<"p1">>)

Elements(q) == {q[i] : i \in 1..Len(q)}

\* C32: the second of two listings of a namespace of an unchanged cluster
\* returns the descriptors the first returned, and the listings issue no
\* delete call and change no counter.
C32_ListingIsIdempotent ==
    /\ (mOut.done /\ pc \in {"prunePods", "pruneJobs"}) =>
          Elements(IF pc = "prunePods" THEN containers ELSE jobsList) = Elements(mOut.val)
    /\ calls = <<>>
    /\ cluster = [pods |-> ClusterPods, jobs |-> ClusterJobs]
    /\ \A k \in {"containers", "jobs"}, n \in NamespaceLabels : metrics[k][n] = 0

\* C33: a delete call is issued only by the deleter of the pair whose
\* listing was answered last, and its namespace and name are those of a
\* pod or a job that this listing returned as a match.
C33_DeleteOnlyWhatThisTickListed ==
    [][(Len(calls') = Len(calls) + 1) =>
         LET c == calls'[Len(calls')] IN
         /\ c.kind = "pods" =>
              /\ pc = "delPods"
              /\ \E k \in 1..Len(ListedPods) :
                   ListedPods[k].ns = c.ns /\ ListedPods[k].name = c.name
         /\ c.kind = "jobs" =>
              /\ pc = "delJobs"
              /\ \E k \in 1..Len(ListedJobs) :
                   ListedJobs[k].ns = c.ns /\ ListedJobs[k].name = c.name]_vars

\* C34: the namespace of every delete call is an element of NAMESPACES, and
\* the pods and jobs of the other namespaces stay in the cluster.
C34_DeleteOnlyInConfiguredNamespaces ==
    /\ \A i \in 1..Len(calls) : Contains(NAMESPACES, calls[i].ns)
    /\ \A i \in 1..Len(ClusterPods) :
         ~Contains(NAMESPACES, ClusterPods[i].ns) =>
             Exists(cluster.pods, ClusterPods[i].ns, ClusterPods[i].name)
    /\ \A i \in 1..Len(ClusterJobs) :
         ~Contains(NAMESPACES, ClusterJobs[i].ns) =>
             Exists(cluster.jobs, ClusterJobs[i].ns, ClusterJobs[i].name)

\* C35: a failed page request ends the pod listing with no descriptor, its
\* pair is left without a call to handlePruning, and the pod deleter is
\* entered only from a listing all of whose page requests were answered.
C35_FailedPageDiscardsListing ==
    [][/\ (pc = "listPods" /\ Len(pages') = Len(pages) + 1 /\ pages'[Len(pages')].err) =>
            /\ containers' = <<>>
            /\ calls' = calls
            /\ pc' = EndOfBody(nsIdx).pc
            /\ nsIdx' = EndOfBody(nsIdx).nsIdx
            /\ log' = Append(log, Record("list error", "containers", namespace, <<>>))
       /\ (pc # "delPods" /\ pc' = "delPods") =>
            /\ pc = "prunePods"
            /\ \A k \in 1..Len(pages) : ~pages[k].err]_vars

\* the second page failed after p1 had matched on the first
C35_Witness ==
    /\ env.DRY_RUN = Value(<<"false">>)
    /\ env.CONTAINER_STATUSES = Value(<<"Error">>)
    /\ NAMESPACES = << <<"ns1">> >>
    /\ Len(pages) = 2
    /\ ~pages[1].err /\ pages[1].items # <<>> /\ pages[1].items[1].name = <<"p1">>
    /\ pages[2].err
    /\ containers = <<>>
    /\ calls = <<>>
    /\ pc = "idle"

\* C36: with DRY_RUN "true" or unset every pruned counter of every namespace
\* label keeps its initial value, whatever the listings return.
C36_DryRunChangesNoCounter ==
    DryRunMode =>
        \A k \in {"containers", "jobs"}, n \in NamespaceLabels : metrics[k][n] = 0

\* the second dry-run tick has handled non-empty listings of pods and jobs
C36_Witness ==
    /\ env.DRY_RUN = Value(<<"true">>)
    /\ ticksFired = 2
    /\ tickerC = 0
    /\ pc = "idle"
    /\ cluster = [pods |-> ClusterPods, jobs |-> ClusterJobs]
    /\ \E i, j \in 1..Len(log) :
        /\ i < j
        /\ log[i] = Record("dryrun", "containers", <<"ns2">>, <<>>)
        /\ log[j] = Record("dryrun", "jobs", <<"ns2">>, <<>>)

\* the jobs of an answer with the status of every condition set to st
RECURSIVE WithStatus(_, _)
WithStatus(items, st) ==
    IF items = <<>> THEN <<>>
    ELSE <<[items[1] EXCEPT !.conds =
              [i \in 1..Len(items[1].conds) |-> [items[1].conds[i] EXCEPT !.status = st]]]>>
         \o WithStatus(Tail(items), st)

\* C37: the descriptors a job listing returns are those it returns for the
\* same jobs with the status of every condition set to True, to False or to
\* Unknown: the status of a condition plays no part in the match.
C37_JobMatchIgnoresConditionStatus ==
    pc = "pruneJobs" =>
        \A st \in ConditionStatuses :
            jobsList = JobDescriptors(WithStatus(pages[1].items, st), jobStatuses)

\* j1 is listed for its only condition, of type Complete and status False
C37_Witness ==
    /\ pc = "pruneJobs"
    /\ pages[1].items # <<>>
    /\ pages[1].items[1].name = <<"j1">>
    /\ pages[1].items[1].conds = <<Condition(<<"Complete">>, <<>>, "False")>>
    /\ jobsList # <<>>
    /\ jobsList[1] = SprintfDescriptor(<<"ns1">>, <<"j1">>, <<"Complete">>)

\* a token that is the string with surrounding whitespace or in another case
Misspelt(t, str) ==
    \/ TrimSpace(t) # t /\ TrimSpace(t) = str
    \/ t # str /\ Lower(t) = Lower(str)

\* C38: a kind name is found in RESOURCES, and a container reason in the
\* status filter, exactly when a token is equal to it, and a condition type
\* in the job filter exactly when a token is equal to the type without its
\* surrounding whitespace; a list whose tokens are all the string with
\* surrounding whitespace or in another case enables nothing and matches
\* nothing.
C38_TokensComparedExactly ==
    mOut.done =>
        LET tokens == {mIn.statuses[i] : i \in 1..Len(mIn.statuses)} IN
        /\ mOut.val.kind <=> observed \in tokens
        /\ mOut.val.pod <=> observed \in tokens
        /\ mOut.val.job <=> TrimSpace(observed) \in tokens
        /\ (\A t \in tokens : Misspelt(t, observed)) =>
              ~mOut.val.kind /\ ~mOut.val.pod /\ ~mOut.val.job

\* the list " JOBS", "jobs" compared with "JOBS": nothing is enabled or matched
C38_Witness ==
    /\ mOut.done
    /\ observed = <<"JOBS">>
    /\ mIn.statuses = << <<" ", "JOBS">>, <<"jobs">> >>
    /\ ~mOut.val.kind /\ ~mOut.val.pod /\ ~mOut.val.job

\* C39: no call of GetKubernetesClient returns a nil client with a nil error.
C39_NeverNilClientWithNilError ==
    \A c \in Callers :
        caller[c].at = "returned" =>
            ~(caller[c].ret.clientset = "nil" /\ caller[c].ret.err = "nil")

====
